---- MODULE Spec2Model ----
(***************************************************************************)
(* Model of stl_ios_utilities: FieldParser::parse_fields and               *)
(* DelimitedRowParser::parse_row reading from a std::istream into a        *)
(* caller-owned std::vector<std::string>.                                  *)
(*                                                                         *)
(* A character is a one-character string, a std::string is a sequence of   *)
(* characters, a std::vector<std::string> is a sequence of such sequences. *)
(* The stream is the record [unread, good]: the characters not yet         *)
(* extracted and whether the stream still evaluates to true.               *)
(***************************************************************************)
EXTENDS Integers, Sequences, FiniteSets, TLC

\* ---------------------------------------------------------------- bounds
\* longest stream contents
MaxLen == 3
\* largest number of fields a parse_fields call requests
MaxRequest == 2
\* largest field number a field parser is registered for
MaxColumn == 2

\* longest stream contents of a caller scanning to the end of the stream
MaxLoopLen == 2

\* longest contents of a stream of tab-delimited lines read by parse_fields
MaxLineLen == 4

\* largest value a caller gives min_fields
MaxMinFields == 3
\* largest value a caller gives max_fields
MaxMaxFields == 2

\* characters a stream read by parse_fields may contain
Chars == {"a", "#", ",", "\n"}
\* characters a stream read by parse_row may contain
RowChars == {"a", ",", "\n"}
\* characters of tab-delimited data
TabChars == {"a", "\t", "\n"}

\* the strings over an alphabet of length at most k
RECURSIVE StringsUpTo(_, _)
StringsUpTo(alphabet, k) ==
  IF k = 0 THEN {<<>>}
  ELSE LET shorter == StringsUpTo(alphabet, k - 1)
       IN  shorter \cup {Append(s, c) : s \in {t \in shorter : Len(t) = k - 1},
                                        c \in alphabet}

\* values the callers pass to the setters
DelimiterSets == {{"\t"}, {","}}
TerminatorSets == {{"\n"}}
MaskedSets == {{}, {"#"}}
\* field parsers a caller registers: append a suffix, erase the text, throw
ParserKinds == {"append", "clear", "throw"}
ParserMaps(kinds) ==
  UNION {[cols -> kinds] : cols \in SUBSET (1..MaxColumn)}
\* field parsers of which one throws, registered for the first columns
ThrowingParserMaps == {<<>>, <<"throw">>, <<"append", "throw">>}
\* field parsers that erase the text, append to it or throw, registered for
\* the first columns
LineParserMaps ==
  {<<>>, <<"clear">>, <<"throw">>, <<"clear", "append">>, <<"append", "throw">>}
\* values of the row parser's setters
Delimiters == {"\t", ","}

VARIABLES
  is,        \* the std::istream: [unread, good]
  fields,    \* the caller's vector handed to parse_fields
  parser,    \* the FieldParser object (its data members)
  row,       \* the caller's vector handed to parse_row
  rparser,   \* the DelimitedRowParser object (its data members)
  last       \* the most recent call and how it ended

vars == <<is, fields, parser, row, rparser, last>>

\* ------------------------------------------------------------ the stream
\* istream::get leaving the stream good at the end of the contents
istream_get_stays_good(s) ==
  IF s.good /\ Len(s.unread) > 0
  THEN [ok |-> TRUE, c |-> Head(s.unread), is |-> [s EXCEPT !.unread = Tail(@)]]
  ELSE [ok |-> FALSE, c |-> "", is |-> s]

\* std::istream::get(char&): extracts one character; at the end of the
\* contents, or when the stream is already not good, extracts nothing and
\* the stream evaluates to false.
istream_get(s) ==
  IF s.good /\ Len(s.unread) > 0
  THEN [ok |-> TRUE, c |-> Head(s.unread), is |-> [s EXCEPT !.unread = Tail(@)]]
  ELSE [ok |-> FALSE, c |-> "", is |-> [s EXCEPT !.good = FALSE]]

\* ------------------------------------------------ the caller's vector
\* the assignment adding to what the vector held
move_assign_appends(target, source) == target \o source
\* the fields read before an exception left in the vector
propagate_leaves_fields(target, tmp) == tmp

\* (*fields) = std::move(tmp_fields): the vector's value after the assignment
move_assign(target, source) == source
\* an exception leaves the call: the fields read so far were in the local
\* temporary vector, the caller's vector was never written
propagate(target, tmp) == target

\* ------------------------------------------------------- field parsers
\* a registered std::function<void(std::string*)> applied to a field
call_parser(kind, field) ==
  CASE kind = "append" -> [thrown |-> FALSE, field |-> Append(field, "_")]
    [] kind = "clear"  -> [thrown |-> FALSE, field |-> <<>>]
    [] kind = "throw"  -> [thrown |-> TRUE, field |-> field]

\* ---------------------------------------------------------- FieldParser
FieldParserDefault ==
  [delimiters_ |-> {"\t"},
   terminators_ |-> {"\n"},
   masked_ |-> {},
   enforce_field_number_ |-> TRUE,
   ignore_underfull_data_ |-> TRUE,
   field_parsers_ |-> <<>>]

\* process_field putting the field in front of the earlier ones
FieldParser_process_field_prepends(field, tmp_fields, field_count, field_parsers) ==
  IF Len(field) = 0
  THEN [thrown |-> "EmptyField", fields |-> tmp_fields]
  ELSE IF field_count \in DOMAIN field_parsers
  THEN LET r == call_parser(field_parsers[field_count], field)
       IN  IF r.thrown
           THEN [thrown |-> "ParserException", fields |-> tmp_fields]
           ELSE [thrown |-> "none", fields |-> <<r.field>> \o tmp_fields]
  ELSE [thrown |-> "none", fields |-> <<field>> \o tmp_fields]

\* process_field without the test for an empty field
FieldParser_process_field_keeps_empty(field, tmp_fields, field_count, field_parsers) ==
  IF field_count \in DOMAIN field_parsers
  THEN LET r == call_parser(field_parsers[field_count], field)
       IN  IF r.thrown
           THEN [thrown |-> "ParserException", fields |-> tmp_fields]
           ELSE [thrown |-> "none", fields |-> Append(tmp_fields, r.field)]
  ELSE [thrown |-> "none", fields |-> Append(tmp_fields, field)]

\* process_field looking the field parser up by a 0-based field number
FieldParser_process_field_zero_based(field, tmp_fields, field_count, field_parsers) ==
  IF Len(field) = 0
  THEN [thrown |-> "EmptyField", fields |-> tmp_fields]
  ELSE IF (field_count - 1) \in DOMAIN field_parsers
  THEN LET r == call_parser(field_parsers[field_count - 1], field)
       IN  IF r.thrown
           THEN [thrown |-> "ParserException", fields |-> tmp_fields]
           ELSE [thrown |-> "none", fields |-> Append(tmp_fields, r.field)]
  ELSE [thrown |-> "none", fields |-> Append(tmp_fields, field)]

\* process_field testing for an empty field after the field parser ran
FieldParser_process_field_checks_after(field, tmp_fields, field_count, field_parsers) ==
  LET r == IF field_count \in DOMAIN field_parsers
           THEN call_parser(field_parsers[field_count], field)
           ELSE [thrown |-> FALSE, field |-> field]
  IN  IF r.thrown
      THEN [thrown |-> "ParserException", fields |-> tmp_fields]
      ELSE IF Len(r.field) = 0
      THEN [thrown |-> "EmptyField", fields |-> tmp_fields]
      ELSE [thrown |-> "none", fields |-> Append(tmp_fields, r.field)]

\* process_field passing over an empty field without a word
FieldParser_process_field_drops_empty(field, tmp_fields, field_count, field_parsers) ==
  IF Len(field) = 0
  THEN [thrown |-> "none", fields |-> tmp_fields]
  ELSE IF field_count \in DOMAIN field_parsers
  THEN LET r == call_parser(field_parsers[field_count], field)
       IN  IF r.thrown
           THEN [thrown |-> "ParserException", fields |-> tmp_fields]
           ELSE [thrown |-> "none", fields |-> Append(tmp_fields, r.field)]
  ELSE [thrown |-> "none", fields |-> Append(tmp_fields, field)]

\* process_field of field_parser.cc: the new tmp_fields, or what was thrown
FieldParser_process_field(field, tmp_fields, field_count, field_parsers) ==
  IF Len(field) = 0
  THEN [thrown |-> "EmptyField", fields |-> tmp_fields]
  ELSE IF field_count \in DOMAIN field_parsers
  THEN LET r == call_parser(field_parsers[field_count], field)
       IN  IF r.thrown
           THEN [thrown |-> "ParserException", fields |-> tmp_fields]
           ELSE [thrown |-> "none", fields |-> Append(tmp_fields, r.field)]
  ELSE [thrown |-> "none", fields |-> Append(tmp_fields, field)]

\* slips in the conditions parse_fields tests
last_field_pending_never(field_count, requested_field_number) == FALSE
request_is_invalid_negative_only(requested_field_number) ==
  requested_field_number < 0
is_kept_always(p, c) == TRUE
quota_is_met_never(field_count, requested_field_number) ==
  field_count > requested_field_number
throws_missing_fields_off_by_one(p, field_count, requested_field_number) ==
  field_count + 1 < requested_field_number /\ p.enforce_field_number_
stores_fields_always(p, field_count, requested_field_number) ==
  field_count <= requested_field_number
stores_fields_full_only(p, field_count, requested_field_number) ==
  field_count = requested_field_number

\* the conditions parse_fields tests
request_is_invalid(requested_field_number) == requested_field_number < 1
is_terminator(p, c) == c \in p.terminators_
is_delimiter(p, c) == c \in p.delimiters_
is_kept(p, c) == c \notin p.masked_
quota_is_met(field_count, requested_field_number) ==
  field_count = requested_field_number
last_field_pending(field_count, requested_field_number) ==
  field_count < requested_field_number
throws_missing_fields(p, field_count, requested_field_number) ==
  field_count < requested_field_number /\ p.enforce_field_number_
stores_fields(p, field_count, requested_field_number) ==
  \/ (field_count < requested_field_number /\ ~p.ignore_underfull_data_)
  \/ field_count = requested_field_number

\* the while (is->get(c)) loop of parse_fields; st is the loop's locals
\* [is, field, tmp_fields, field_count, thrown, stop]
RECURSIVE FieldParser_read(_, _, _)
FieldParser_read(p, requested_field_number, st) ==
  LET g == istream_get(st.is)
      s1 == [st EXCEPT !.is = g.is]
  IN  IF ~g.ok THEN [s1 EXCEPT !.stop = "eof"]
      ELSE IF is_terminator(p, g.c) THEN [s1 EXCEPT !.stop = "terminator"]
      ELSE IF is_delimiter(p, g.c)
      THEN LET r == FieldParser_process_field(st.field, st.tmp_fields,
                                              st.field_count + 1, p.field_parsers_)
               s2 == [s1 EXCEPT !.field_count = @ + 1, !.tmp_fields = r.fields,
                                !.field = <<>>]
           IN  IF r.thrown # "none"
               THEN [s2 EXCEPT !.thrown = r.thrown, !.stop = "throw"]
               ELSE IF quota_is_met(s2.field_count, requested_field_number)
               THEN [s2 EXCEPT !.stop = "quota"]
               ELSE FieldParser_read(p, requested_field_number, s2)
      ELSE IF is_kept(p, g.c)
      THEN FieldParser_read(p, requested_field_number,
                            [s1 EXCEPT !.field = Append(@, g.c)])
      ELSE FieldParser_read(p, requested_field_number, s1)

\* FieldParser::parse_fields: the stream and the vector after the call, what
\* was thrown ("none" when it returned) and why the loop stopped
parse_fields(p, stream, flds, requested_field_number) ==
  IF request_is_invalid(requested_field_number)
  THEN [is |-> stream, fields |-> flds, thrown |-> "InvalidArgument",
        stop |-> "none", field_count |-> 0]
  ELSE
    LET st0 == [is |-> stream, field |-> <<>>, tmp_fields |-> <<>>,
                field_count |-> 0, thrown |-> "none", stop |-> "none"]
        st1 == FieldParser_read(p, requested_field_number, st0)
        pending == st1.thrown = "none"
                   /\ last_field_pending(st1.field_count, requested_field_number)
        r == IF pending
             THEN FieldParser_process_field(st1.field, st1.tmp_fields,
                                            st1.field_count + 1, p.field_parsers_)
             ELSE [thrown |-> st1.thrown, fields |-> st1.tmp_fields]
        field_count == IF pending THEN st1.field_count + 1 ELSE st1.field_count
    IN  IF r.thrown # "none"
        THEN [is |-> st1.is, fields |-> propagate(flds, r.fields),
              thrown |-> r.thrown,
              stop |-> st1.stop, field_count |-> field_count]
        ELSE IF throws_missing_fields(p, field_count, requested_field_number)
        THEN [is |-> st1.is, fields |-> propagate(flds, r.fields),
              thrown |-> "MissingFields",
              stop |-> st1.stop, field_count |-> field_count]
        ELSE IF stores_fields(p, field_count, requested_field_number)
        THEN [is |-> st1.is, fields |-> move_assign(flds, r.fields),
              thrown |-> "none",
              stop |-> st1.stop, field_count |-> field_count]
        ELSE [is |-> st1.is, fields |-> flds, thrown |-> "none",
              stop |-> st1.stop, field_count |-> field_count]

\* ------------------------------------------------------------- the calls
\* n is the number the call was given, got the field parser it was given or
\* returned, reg the field parsers it was given
NoCall ==
  [op |-> "none", n |-> 0, thrown |-> "none", stop |-> "none", field_count |-> 0,
   pre_is |-> [unread |-> <<>>, good |-> TRUE], pre_out |-> <<>>,
   got |-> "none", reg |-> <<>>]

ParseFields(n) ==
  LET r == parse_fields(parser, is, fields, n)
  IN  /\ is' = r.is
      /\ fields' = r.fields
      /\ last' = [op |-> "parse_fields", n |-> n, thrown |-> r.thrown,
                  stop |-> r.stop, field_count |-> r.field_count,
                  pre_is |-> is, pre_out |-> fields,
                  got |-> "none", reg |-> <<>>]
      /\ UNCHANGED <<parser, row, rparser>>

SetDelimiters(value) ==
  /\ parser' = [parser EXCEPT !.delimiters_ = value]
  /\ last' = NoCall
  /\ UNCHANGED <<is, fields, row, rparser>>

SetTerminators(value) ==
  /\ parser' = [parser EXCEPT !.terminators_ = value]
  /\ last' = NoCall
  /\ UNCHANGED <<is, fields, row, rparser>>

SetMasked(value) ==
  /\ parser' = [parser EXCEPT !.masked_ = value]
  /\ last' = NoCall
  /\ UNCHANGED <<is, fields, row, rparser>>

SetEnforceFieldNumber(value) ==
  /\ parser' = [parser EXCEPT !.enforce_field_number_ = value]
  /\ last' = NoCall
  /\ UNCHANGED <<is, fields, row, rparser>>

SetIgnoreUnderfullData(value) ==
  /\ parser' = [parser EXCEPT !.ignore_underfull_data_ = value]
  /\ last' = NoCall
  /\ UNCHANGED <<is, fields, row, rparser>>

SetFieldParsers(value) ==
  /\ parser' = [parser EXCEPT !.field_parsers_ = value]
  /\ last' = NoCall
  /\ UNCHANGED <<is, fields, row, rparser>>

AddParser(number, value) ==
  /\ parser' = [parser EXCEPT !.field_parsers_ =
                  [k \in (DOMAIN @) \cup {number} |->
                     IF k = number THEN value ELSE @[k]]]
  /\ last' = NoCall
  /\ UNCHANGED <<is, fields, row, rparser>>


\* --------------------------------------------------- DelimitedRowParser
DelimitedRowParserDefault ==
  [delimiter_ |-> "\t",
   min_fields_ |-> 0,
   enforce_min_fields_ |-> TRUE,
   ignore_underfull_row_ |-> TRUE,
   max_fields_ |-> 0,
   enforce_max_fields_ |-> TRUE,
   ignore_overfull_row_ |-> TRUE,
   field_parsers_ |-> <<>>]

\* is_overfilled already true of the last field allowed
is_overfilled_one_early(max_fields, field_count) ==
  max_fields > 0 /\ field_count >= max_fields
\* is_overfilled taking a max_fields of 0 for a bound
is_overfilled_zero_is_bound(max_fields, field_count) ==
  max_fields >= 0 /\ field_count > max_fields

\* is_overfilled letting one field more pass
is_overfilled_one_late(max_fields, field_count) ==
  max_fields > 0 /\ field_count > max_fields + 1

is_overfilled(max_fields, field_count) ==
  max_fields > 0 /\ field_count > max_fields

\* process_field leaving out the fields that are empty
DelimitedRowParser_process_field_skips_empty(field, tmp_row, field_count, max_fields, field_parsers) ==
  IF ~is_overfilled(max_fields, field_count) /\ field # <<>>
  THEN IF field_count \in DOMAIN field_parsers
       THEN LET r == call_parser(field_parsers[field_count], field)
            IN  IF r.thrown
                THEN [thrown |-> "ParserException", row |-> tmp_row, field |-> field]
                ELSE [thrown |-> "none", row |-> Append(tmp_row, r.field),
                      field |-> <<>>]
       ELSE [thrown |-> "none", row |-> Append(tmp_row, field), field |-> <<>>]
  ELSE [thrown |-> "none", row |-> tmp_row, field |-> field]

\* process_field handing also the fields beyond max_fields to their parser
DelimitedRowParser_process_field_parses_dropped(field, tmp_row, field_count, max_fields, field_parsers) ==
  LET r == IF field_count \in DOMAIN field_parsers
           THEN call_parser(field_parsers[field_count], field)
           ELSE [thrown |-> FALSE, field |-> field]
  IN  IF r.thrown
      THEN [thrown |-> "ParserException", row |-> tmp_row, field |-> field]
      ELSE IF ~is_overfilled(max_fields, field_count)
      THEN [thrown |-> "none", row |-> Append(tmp_row, r.field), field |-> <<>>]
      ELSE [thrown |-> "none", row |-> tmp_row, field |-> field]

\* process_field of delimited_row_parser.cc: the new tmp_row and field, or
\* what the field parser threw
DelimitedRowParser_process_field(field, tmp_row, field_count, max_fields, field_parsers) ==
  IF ~is_overfilled(max_fields, field_count)
  THEN IF field_count \in DOMAIN field_parsers
       THEN LET r == call_parser(field_parsers[field_count], field)
            IN  IF r.thrown
                THEN [thrown |-> "ParserException", row |-> tmp_row, field |-> field]
                ELSE [thrown |-> "none", row |-> Append(tmp_row, r.field),
                      field |-> <<>>]
       ELSE [thrown |-> "none", row |-> Append(tmp_row, field), field |-> <<>>]
  ELSE [thrown |-> "none", row |-> tmp_row, field |-> field]

\* slips in the conditions parse_row tests
throws_missing_row_off_by_one(p, field_count) ==
  field_count + 1 < p.min_fields_ /\ p.enforce_min_fields_
throws_unexpected_one_late(p, field_count) ==
  is_overfilled(p.max_fields_, field_count - 1) /\ p.enforce_max_fields_
stores_row_always(p, field_count) == TRUE
stores_row_when_filled(p, field_count) ==
  /\ (~is_overfilled(p.max_fields_, field_count) \/ ~p.ignore_overfull_row_)
  /\ field_count >= p.min_fields_

\* UnexpectedFields held back while the minimum is not reached
throws_unexpected_after_min(p, field_count) ==
  /\ is_overfilled(p.max_fields_, field_count) /\ p.enforce_max_fields_
  /\ ~(field_count < p.min_fields_ /\ p.enforce_min_fields_)
\* the minimum judged on the number of fields kept
throws_missing_row_on_kept(p, field_count) ==
  LET kept == IF is_overfilled(p.max_fields_, field_count)
              THEN p.max_fields_ ELSE field_count
  IN  kept < p.min_fields_ /\ p.enforce_min_fields_

\* the conditions parse_row tests after its loop
throws_missing_row(p, field_count) ==
  field_count < p.min_fields_ /\ p.enforce_min_fields_
throws_unexpected(p, field_count) ==
  is_overfilled(p.max_fields_, field_count) /\ p.enforce_max_fields_
stores_row(p, field_count) ==
  /\ (~is_overfilled(p.max_fields_, field_count) \/ ~p.ignore_overfull_row_)
  /\ (field_count >= p.min_fields_ \/ ~p.ignore_underfull_row_)

\* the while (is->get(c)) loop of parse_row; st is the loop's locals
\* [is, field, tmp_row, field_count, thrown, stop]
RECURSIVE DelimitedRowParser_read(_, _)
DelimitedRowParser_read(p, st) ==
  LET g == istream_get(st.is)
      s1 == [st EXCEPT !.is = g.is]
  IN  IF ~g.ok THEN [s1 EXCEPT !.stop = "eof"]
      ELSE IF g.c = "\n" THEN [s1 EXCEPT !.stop = "terminator"]
      ELSE IF g.c = p.delimiter_
      THEN LET r == DelimitedRowParser_process_field(
                      st.field, st.tmp_row, st.field_count, p.max_fields_,
                      p.field_parsers_)
               s2 == [s1 EXCEPT !.tmp_row = r.row, !.field = r.field]
               s3 == [s2 EXCEPT !.field_count = @ + 1]
           IN  IF r.thrown # "none"
               THEN [s2 EXCEPT !.thrown = r.thrown, !.stop = "throw"]
               ELSE IF throws_unexpected(p, s3.field_count)
               THEN [s3 EXCEPT !.thrown = "UnexpectedFields", !.stop = "throw"]
               ELSE DelimitedRowParser_read(p, s3)
      ELSE IF ~is_overfilled(p.max_fields_, st.field_count)
      THEN DelimitedRowParser_read(p, [s1 EXCEPT !.field = Append(@, g.c)])
      ELSE DelimitedRowParser_read(p, s1)

\* DelimitedRowParser::parse_row: the stream and the vector after the call,
\* what was thrown ("none" when it returned) and why the loop stopped
parse_row(p, stream, rw) ==
  LET st0 == [is |-> stream, field |-> <<>>, tmp_row |-> <<>>,
              field_count |-> 1, thrown |-> "none", stop |-> "none"]
      st1 == DelimitedRowParser_read(p, st0)
      out(thrown, r) == [is |-> st1.is, row |-> r, thrown |-> thrown,
                         stop |-> st1.stop, field_count |-> st1.field_count]
  IN  IF st1.thrown # "none"
      THEN out(st1.thrown, propagate(rw, st1.tmp_row))
      ELSE IF throws_missing_row(p, st1.field_count)
      THEN out("MissingFields", propagate(rw, st1.tmp_row))
      ELSE IF throws_unexpected(p, st1.field_count)
      THEN out("UnexpectedFields", propagate(rw, st1.tmp_row))
      ELSE IF stores_row(p, st1.field_count)
      THEN LET r == DelimitedRowParser_process_field(
                      st1.field, st1.tmp_row, st1.field_count, p.max_fields_,
                      p.field_parsers_)
           IN  IF r.thrown # "none"
               THEN out(r.thrown, propagate(rw, r.row))
               ELSE out("none", move_assign(rw, r.row))
      ELSE out("none", rw)

\* parse_row reading on to the end of the row before it throws
\* UnexpectedFields
ParseRow_skips_row_on_throw ==
  LET r == parse_row(rparser, is, row)
      text == IF is.good THEN is.unread ELSE <<>>
      line == CHOOSE k \in 0..Len(text) :
                /\ \A i \in 1..k : text[i] # "\n"
                /\ k = Len(text) \/ text[k + 1] = "\n"
      skipped == [unread |-> SubSeq(text, line + 2, Len(text)),
                  good |-> line < Len(text)]
  IN  /\ is' = IF r.thrown = "UnexpectedFields" THEN skipped ELSE r.is
      /\ row' = r.row
      /\ last' = [op |-> "parse_row", n |-> 0, thrown |-> r.thrown,
                  stop |-> r.stop, field_count |-> r.field_count,
                  pre_is |-> is, pre_out |-> row,
                  got |-> "none", reg |-> <<>>]
      /\ UNCHANGED <<parser, fields, rparser>>

\* parse_row putting back what it read when it throws
ParseRow_rewinds_on_throw ==
  LET r == parse_row(rparser, is, row)
  IN  /\ is' = IF r.thrown # "none" THEN is ELSE r.is
      /\ row' = r.row
      /\ last' = [op |-> "parse_row", n |-> 0, thrown |-> r.thrown,
                  stop |-> r.stop, field_count |-> r.field_count,
                  pre_is |-> is, pre_out |-> row,
                  got |-> "none", reg |-> <<>>]
      /\ UNCHANGED <<parser, fields, rparser>>

ParseRow ==
  LET r == parse_row(rparser, is, row)
  IN  /\ is' = r.is
      /\ row' = r.row
      /\ last' = [op |-> "parse_row", n |-> 0, thrown |-> r.thrown,
                  stop |-> r.stop, field_count |-> r.field_count,
                  pre_is |-> is, pre_out |-> row,
                  got |-> "none", reg |-> <<>>]
      /\ UNCHANGED <<parser, fields, rparser>>

SetDelimiter(delim) ==
  /\ rparser' = [rparser EXCEPT !.delimiter_ = delim]
  /\ last' = NoCall
  /\ UNCHANGED <<is, fields, parser, row>>

SetMinFields(min) ==
  /\ rparser' = [rparser EXCEPT !.min_fields_ = min]
  /\ last' = NoCall
  /\ UNCHANGED <<is, fields, parser, row>>

SetEnforceMinFields(enforce) ==
  /\ rparser' = [rparser EXCEPT !.enforce_min_fields_ = enforce]
  /\ last' = NoCall
  /\ UNCHANGED <<is, fields, parser, row>>

SetIgnoreUnderfullRow(ignore) ==
  /\ rparser' = [rparser EXCEPT !.ignore_underfull_row_ = ignore]
  /\ last' = NoCall
  /\ UNCHANGED <<is, fields, parser, row>>

SetMaxFields(max) ==
  /\ rparser' = [rparser EXCEPT !.max_fields_ = max]
  /\ last' = NoCall
  /\ UNCHANGED <<is, fields, parser, row>>

SetEnforceMaxFields(enforce) ==
  /\ rparser' = [rparser EXCEPT !.enforce_max_fields_ = enforce]
  /\ last' = NoCall
  /\ UNCHANGED <<is, fields, parser, row>>

SetIgnoreOverfullRow(ignore) ==
  /\ rparser' = [rparser EXCEPT !.ignore_overfull_row_ = ignore]
  /\ last' = NoCall
  /\ UNCHANGED <<is, fields, parser, row>>

\* set_parser leaving a column that has a field parser as it is
SetParser_keeps_registered(column, value) ==
  /\ rparser' = [rparser EXCEPT !.field_parsers_ =
                   [k \in (DOMAIN @) \cup {column} |->
                      IF k \in DOMAIN @ THEN @[k] ELSE value]]
  /\ last' = [NoCall EXCEPT !.op = "set_parser", !.n = column, !.got = value]
  /\ UNCHANGED <<is, fields, parser, row>>

SetParser(column, value) ==
  /\ rparser' = [rparser EXCEPT !.field_parsers_ =
                   [k \in (DOMAIN @) \cup {column} |->
                      IF k = column THEN value ELSE @[k]]]
  /\ last' = [NoCall EXCEPT !.op = "set_parser", !.n = column, !.got = value]
  /\ UNCHANGED <<is, fields, parser, row>>

SetRowFieldParsers(parsers) ==
  /\ rparser' = [rparser EXCEPT !.field_parsers_ = parsers]
  /\ last' = [NoCall EXCEPT !.op = "field_parsers", !.reg = parsers]
  /\ UNCHANGED <<is, fields, parser, row>>

\* get_parser: field_parsers_.at(column), which throws std::out_of_range
\* when the column has no field parser
get_parser(p, column) ==
  IF column \in DOMAIN p.field_parsers_
  THEN [thrown |-> "none", parser |-> p.field_parsers_[column]]
  ELSE [thrown |-> "out_of_range", parser |-> "none"]

GetParser(column) ==
  LET r == get_parser(rparser, column)
  IN  /\ last' = [NoCall EXCEPT !.op = "get_parser", !.n = column,
                                !.thrown = r.thrown, !.got = r.parser]
      /\ UNCHANGED <<is, fields, parser, row, rparser>>

\* -------------------------------------------------------- specifications
\* a FieldParser reading a stream: Init is the default-constructed parser,
\* a freshly opened stream and an empty vector
Init ==
  /\ is \in {[unread |-> s, good |-> TRUE] : s \in StringsUpTo(Chars, MaxLen)}
  /\ fields = <<>>
  /\ parser = FieldParserDefault
  /\ row = <<>>
  /\ rparser = DelimitedRowParserDefault
  /\ last = NoCall

Next ==
  \/ \E n \in -1..MaxRequest : ParseFields(n)
  \/ \E v \in DelimiterSets : SetDelimiters(v)
  \/ \E v \in TerminatorSets : SetTerminators(v)
  \/ \E v \in MaskedSets : SetMasked(v)
  \/ \E v \in BOOLEAN : SetEnforceFieldNumber(v)
  \/ \E v \in BOOLEAN : SetIgnoreUnderfullData(v)
  \/ \E v \in ParserMaps({"append"}) : SetFieldParsers(v)
  \/ \E k \in 1..MaxColumn : AddParser(k, "append")

Spec == Init /\ [][Next]_vars

\* a DelimitedRowParser reading a stream
InitRow ==
  /\ is \in {[unread |-> s, good |-> TRUE] : s \in StringsUpTo(RowChars, MaxLen)}
  /\ fields = <<>>
  /\ parser = FieldParserDefault
  /\ row = <<>>
  /\ rparser = DelimitedRowParserDefault
  /\ last = NoCall

NextRow ==
  \/ ParseRow
  \/ \E v \in Delimiters : SetDelimiter(v)
  \/ \E v \in 0..MaxMinFields : SetMinFields(v)
  \/ \E v \in BOOLEAN : SetEnforceMinFields(v)
  \/ \E v \in BOOLEAN : SetIgnoreUnderfullRow(v)
  \/ \E v \in -1..MaxMaxFields : SetMaxFields(v)
  \/ \E v \in BOOLEAN : SetEnforceMaxFields(v)
  \/ \E v \in BOOLEAN : SetIgnoreOverfullRow(v)

SpecRow == InitRow /\ [][NextRow]_vars

\* both parsers, with field parsers registered, reading tab-delimited data
InitParsers ==
  /\ is \in {[unread |-> s, good |-> TRUE] : s \in StringsUpTo(TabChars, MaxLen)}
  /\ fields = <<>>
  /\ parser = FieldParserDefault
  /\ row = <<>>
  /\ rparser = DelimitedRowParserDefault
  /\ last = NoCall

NextParsers ==
  \/ \E n \in 1..MaxRequest : ParseFields(n)
  \/ ParseRow
  \/ \E v \in ParserMaps({"append"}) : SetFieldParsers(v)
  \/ \E k \in 1..MaxColumn : AddParser(k, "append")
  \/ \E v \in ParserMaps({"append"}) : SetRowFieldParsers(v)
  \/ \E k \in 1..MaxColumn : SetParser(k, "append")

SpecParsers == InitParsers /\ [][NextParsers]_vars

\* a DelimitedRowParser whose field parsers are set, looked up and used
NextRegistry ==
  \/ ParseRow
  \/ \E v \in ParserMaps({"append", "clear"}) : SetRowFieldParsers(v)
  \/ \E k \in 1..MaxColumn, v \in ParserKinds : SetParser(k, v)
  \/ \E k \in 0..MaxColumn : GetParser(k)

SpecRegistry == InitParsers /\ [][NextRegistry]_vars

\* both parsers under every setting of their flags and bounds, reading
\* tab-delimited data in a loop
NextScan ==
  \/ \E n \in 1..MaxRequest : ParseFields(n)
  \/ ParseRow
  \/ \E v \in BOOLEAN : SetEnforceFieldNumber(v)
  \/ \E v \in BOOLEAN : SetIgnoreUnderfullData(v)
  \/ \E v \in 0..MaxMinFields : SetMinFields(v)
  \/ \E v \in BOOLEAN : SetEnforceMinFields(v)
  \/ \E v \in BOOLEAN : SetIgnoreUnderfullRow(v)
  \/ \E v \in 0..MaxMaxFields : SetMaxFields(v)
  \/ \E v \in BOOLEAN : SetEnforceMaxFields(v)
  \/ \E v \in BOOLEAN : SetIgnoreOverfullRow(v)

SpecScan == InitParsers /\ [][NextScan]_vars

\* both parsers enforcing their field numbers, with field parsers that may
\* throw
NextFailures ==
  \/ \E n \in 0..MaxRequest : ParseFields(n)
  \/ ParseRow
  \/ \E v \in ThrowingParserMaps : SetFieldParsers(v)
  \/ \E v \in ThrowingParserMaps : SetRowFieldParsers(v)
  \/ \E v \in 0..MaxMinFields : SetMinFields(v)
  \/ \E v \in 0..MaxMaxFields : SetMaxFields(v)

SpecFailures == InitParsers /\ [][NextFailures]_vars

\* a caller that keeps scanning the stream with either parser, whatever the
\* calls throw, and may change the bounds in between
Scan == ParseRow \/ \E n \in 1..MaxRequest : ParseFields(n)

InitLoop ==
  /\ is \in {[unread |-> s, good |-> TRUE] :
               s \in StringsUpTo(TabChars, MaxLoopLen)}
  /\ fields = <<>>
  /\ parser = FieldParserDefault
  /\ row = <<>>
  /\ rparser = DelimitedRowParserDefault
  /\ last = NoCall

NextLoop ==
  \/ \E n \in 0..MaxRequest : ParseFields(n)
  \/ ParseRow
  \/ \E v \in BOOLEAN : SetEnforceFieldNumber(v)
  \/ \E v \in 0..MaxMaxFields : SetMaxFields(v)

\* the caller never stops scanning for good
SpecLoop == InitLoop /\ [][NextLoop]_vars /\ WF_vars(Scan)

\* a FieldParser reading tab-delimited lines, with field parsers of every kind
InitLines ==
  /\ is \in {[unread |-> s, good |-> TRUE] :
               s \in StringsUpTo(TabChars, MaxLineLen)}
  /\ fields = <<>>
  /\ parser = FieldParserDefault
  /\ row = <<>>
  /\ rparser = DelimitedRowParserDefault
  /\ last = NoCall

NextLines ==
  \/ \E n \in 1..MaxRequest : ParseFields(n)
  \/ \E v \in BOOLEAN : SetEnforceFieldNumber(v)
  \/ \E v \in BOOLEAN : SetIgnoreUnderfullData(v)
  \/ \E v \in LineParserMaps : SetFieldParsers(v)

SpecLines == InitLines /\ [][NextLines]_vars

\* a DelimitedRowParser with a maximum and field parsers, some registered
\* for columns beyond the maximum
NextTruncate ==
  \/ ParseRow
  \/ \E v \in 0..MaxMaxFields : SetMaxFields(v)
  \/ \E v \in BOOLEAN : SetEnforceMaxFields(v)
  \/ \E v \in BOOLEAN : SetIgnoreOverfullRow(v)
  \/ \E v \in ThrowingParserMaps : SetRowFieldParsers(v)

SpecTruncate == InitParsers /\ [][NextTruncate]_vars

\* ------------------------------------------------- parse_delimited_row
\* the ParseDelimitedRowOptions of a default-constructed object
ParseDelimitedRowOptionsDefault ==
  [delimiter |-> "\t",
   min_fields |-> -1,
   max_fields |-> -1,
   ignore_additional_fields |-> TRUE,
   field_parsers |-> <<>>]

\* the options the calls are made with
ParseDelimitedRowOptions ==
  {[ParseDelimitedRowOptionsDefault EXCEPT
      !.min_fields = mn, !.max_fields = mx,
      !.ignore_additional_fields = ig, !.field_parsers = fp] :
     mn \in -1..MaxMinFields, mx \in -1..MaxMaxFields, ig \in BOOLEAN,
     fp \in {<<>>, <<"append">>, <<"clear", "append">>}}

\* the test parse_delimited_row makes before it keeps a character or a field
has_room(options, field_count) ==
  options.max_fields = -1 \/ field_count <= options.max_fields

\* process_field_ of parse_delimited_row.cc: the new row and field, or what
\* the field parser threw
process_field_(field, field_parsers, field_count, tmp_row) ==
  IF field_count \in DOMAIN field_parsers
  THEN LET r == call_parser(field_parsers[field_count], field)
       IN  IF r.thrown
           THEN [thrown |-> "ParserException", row |-> tmp_row, field |-> field]
           ELSE [thrown |-> "none", row |-> Append(tmp_row, r.field),
                 field |-> <<>>]
  ELSE [thrown |-> "none", row |-> Append(tmp_row, field), field |-> <<>>]

\* the read loop of parse_delimited_row
RECURSIVE parse_delimited_row_read(_, _)
parse_delimited_row_read(options, st) ==
  LET g == istream_get(st.is)
      s1 == [st EXCEPT !.is = g.is]
  IN  IF ~g.ok THEN [s1 EXCEPT !.stop = "eof"]
      ELSE IF g.c = "\n" THEN [s1 EXCEPT !.stop = "terminator"]
      ELSE IF g.c = options.delimiter
      THEN LET r == IF has_room(options, st.field_count)
                    THEN process_field_(st.field, options.field_parsers,
                                        st.field_count, st.tmp_row)
                    ELSE [thrown |-> "none", row |-> st.tmp_row,
                          field |-> st.field]
               s2 == [s1 EXCEPT !.tmp_row = r.row, !.field = r.field]
               s3 == [s2 EXCEPT !.field_count = @ + 1]
           IN  IF r.thrown # "none"
               THEN [s2 EXCEPT !.thrown = r.thrown, !.stop = "throw"]
               ELSE IF /\ s3.field_count > options.max_fields
                       /\ ~options.ignore_additional_fields
               THEN [s3 EXCEPT !.thrown = "UnexpectedFields", !.stop = "throw"]
               ELSE parse_delimited_row_read(options, s3)
      ELSE IF has_room(options, st.field_count)
      THEN parse_delimited_row_read(options, [s1 EXCEPT !.field = Append(@, g.c)])
      ELSE parse_delimited_row_read(options, s1)

\* parse_delimited_row: the stream and the vector after the call, what was
\* thrown ("none" when it returned) and why the loop stopped
parse_delimited_row(stream, rw, options) ==
  LET st0 == [is |-> stream, field |-> <<>>, tmp_row |-> <<>>,
              field_count |-> 1, thrown |-> "none", stop |-> "none"]
      st1 == parse_delimited_row_read(options, st0)
      r == IF has_room(options, st1.field_count)
           THEN process_field_(st1.field, options.field_parsers,
                               st1.field_count, st1.tmp_row)
           ELSE [thrown |-> "none", row |-> st1.tmp_row, field |-> st1.field]
      out(thrown, v) == [is |-> st1.is, row |-> v, thrown |-> thrown,
                         stop |-> st1.stop, field_count |-> st1.field_count]
  IN  IF st1.thrown # "none"
      THEN out(st1.thrown, propagate(rw, st1.tmp_row))
      ELSE IF r.thrown # "none"
      THEN out(r.thrown, propagate(rw, r.row))
      ELSE IF st1.field_count < options.min_fields
      THEN out("MissingFields", propagate(rw, r.row))
      ELSE out("none", move_assign(rw, r.row))

ParseDelimitedRow(options) ==
  LET r == parse_delimited_row(is, row, options)
  IN  /\ is' = r.is
      /\ row' = r.row
      /\ last' = [op |-> "parse_delimited_row", n |-> 0, thrown |-> r.thrown,
                  stop |-> r.stop, field_count |-> r.field_count,
                  pre_is |-> is, pre_out |-> row,
                  got |-> "none", reg |-> <<>>, options |-> options]
      /\ UNCHANGED <<parser, fields, rparser>>

\* calls of the free function on tab-delimited data
NextFree ==
  \E options \in ParseDelimitedRowOptions : ParseDelimitedRow(options)

SpecFree == InitParsers /\ [][NextFree]_vars

\* ------------------------------------------------- what the claims speak of
\* the longest prefix of s with no character of T
RECURSIVE Before(_, _)
Before(s, T) ==
  IF s = <<>> \/ Head(s) \in T THEN <<>> ELSE <<Head(s)>> \o Before(Tail(s), T)

\* the pieces of s between the characters of D
RECURSIVE Split(_, _)
Split(s, D) ==
  LET first == Before(s, D)
  IN  IF Len(first) = Len(s) THEN <<s>>
      ELSE <<first>> \o Split(SubSeq(s, Len(first) + 2, Len(s)), D)

\* s without the characters of M
Unmasked(s, M) == SelectSeq(s, LAMBDA c : c \notin M)

AllNonEmpty(fs) == \A i \in DOMAIN fs : fs[i] # <<>>
FirstN(fs, k) == SubSeq(fs, 1, k)

\* every field of fs replaced by the result of the parser registered for its number
Transformed(fs, field_parsers) ==
  [i \in DOMAIN fs |->
     IF i \in DOMAIN field_parsers
     THEN call_parser(field_parsers[i], fs[i]).field ELSE fs[i]]

\* the characters the stream could give the last call, and those it took
Offered == IF last.pre_is.good THEN last.pre_is.unread ELSE <<>>
Consumed ==
  SubSeq(last.pre_is.unread, 1, Len(last.pre_is.unread) - Len(is.unread))

\* parse_fields: the text before the next terminator or the end of the stream,
\* and the delimiter-separated fields in it, masked characters left out
Segment == Before(Offered, parser.terminators_)
Available ==
  LET pieces == Split(Segment, parser.delimiters_)
  IN  [i \in DOMAIN pieces |-> Unmasked(pieces[i], parser.masked_)]
DelimitersIn(s) == {i \in 1..Len(s) : s[i] \in parser.delimiters_}
\* the position of the k-th delimiter of s
KthDelimiter(s, k) ==
  CHOOSE i \in DelimitersIn(s) : Cardinality({j \in DelimitersIn(s) : j <= i}) = k

CalledParseFields == last.op = "parse_fields" /\ last.n >= 1

\* C1: for every input and quota q >= 1, if exactly q non-empty
\* delimiter-separated fields are available before the next terminator or the
\* end of the stream, parse_fields returns and the vector holds exactly those
\* q fields in input order, each replaced by the result of the field parser
\* registered for its 1-based number and raw otherwise.
C1_ExactQuotaIsStored ==
  (CalledParseFields /\ Len(Available) = last.n /\ AllNonEmpty(Available))
    => /\ last.thrown = "none"
       /\ fields = Transformed(Available, parser.field_parsers_)

C1_Witness ==
  /\ CalledParseFields /\ last.n = 2
  /\ Len(Available) = 2 /\ AllNonEmpty(Available) /\ Available[1] # Available[2]
  /\ DOMAIN parser.field_parsers_ = {1}
  /\ fields # last.pre_out

\* a zero-length field among the characters the last call took: a delimiter
\* first, two delimiters in a row, or a delimiter right before a terminator
ZeroLengthFieldRead ==
  LET u == Unmasked(Consumed, parser.masked_)
  IN  \/ Len(u) >= 1 /\ u[1] \in parser.delimiters_
      \/ \E i \in 1..(Len(u) - 1) :
           u[i] \in parser.delimiters_ /\ u[i + 1] \in parser.delimiters_
      \/ \E i \in 1..(Len(u) - 1) :
           u[i] \in parser.delimiters_ /\ u[i + 1] \in parser.terminators_

\* C2: a parse_fields call that reads a zero-length field (a delimiter as the
\* first character read, two consecutive delimiters, a delimiter immediately
\* followed by a terminator) fails with EmptyField, whatever the settings.
C2_ZeroLengthFieldThrows ==
  (last.op = "parse_fields" /\ ZeroLengthFieldRead) => last.thrown = "EmptyField"

C2_Witness ==
  /\ last.op = "parse_fields" /\ last.thrown = "EmptyField"
  /\ Len(Consumed) = 3
  /\ Consumed[1] \notin parser.delimiters_
  /\ Consumed[2] \in parser.delimiters_ /\ Consumed[3] \in parser.delimiters_

\* C3 as stated: with enforce_field_number_, every call that requests more
\* fields than there are before the next terminator or the end of the stream
\* fails with MissingFields and leaves the vector as it was.
C3_AsStated ==
  (CalledParseFields /\ parser.enforce_field_number_ /\ Len(Available) < last.n)
    => (last.thrown = "MissingFields" /\ fields = last.pre_out)

\* C3 (amended): with enforce_field_number_, a call that requests more fields
\* than there are before the next terminator or the end of the stream fails
\* with MissingFields when all of them are non-empty, and with EmptyField
\* when one of them is empty; either way the vector is left as it was.
C3_MissingFieldsThrown ==
  (CalledParseFields /\ parser.enforce_field_number_ /\ Len(Available) < last.n)
    => /\ fields = last.pre_out
       /\ last.thrown = IF AllNonEmpty(Available) THEN "MissingFields"
                        ELSE "EmptyField"

C3_Witness ==
  /\ CalledParseFields /\ parser.enforce_field_number_
  /\ Len(Available) < last.n /\ AllNonEmpty(Available)
  /\ last.thrown = "MissingFields"
  /\ last.pre_out # <<>> /\ fields = last.pre_out

\* C4 as stated: with enforce_field_number_ false and ignore_underfull_data_
\* true, a call that reads fewer fields than requested does not fail and
\* leaves the vector as it was.
C4_AsStated ==
  (CalledParseFields /\ ~parser.enforce_field_number_
     /\ parser.ignore_underfull_data_ /\ Len(Available) < last.n)
    => (last.thrown = "none" /\ fields = last.pre_out)

\* C4 (amended): with enforce_field_number_ false and ignore_underfull_data_
\* true, a call that reads fewer fields than requested, all of them
\* non-empty, does not fail and leaves the vector as it was (it still holds
\* the previous call's contents).
C4_UnderfullIgnored ==
  (CalledParseFields /\ ~parser.enforce_field_number_
     /\ parser.ignore_underfull_data_
     /\ Len(Available) < last.n /\ AllNonEmpty(Available))
    => (last.thrown = "none" /\ fields = last.pre_out)

C4_Witness ==
  /\ CalledParseFields /\ ~parser.enforce_field_number_
  /\ parser.ignore_underfull_data_
  /\ Len(Available) < last.n /\ AllNonEmpty(Available)
  /\ last.thrown = "none"
  /\ last.pre_out # <<>> /\ fields = last.pre_out /\ Consumed # <<>>

\* C5 as stated: with enforce_field_number_ and ignore_underfull_data_ both
\* false, a call that reads fewer fields than requested succeeds and
\* overwrites the vector with the short list of fields read, in order.
C5_AsStated ==
  (CalledParseFields /\ ~parser.enforce_field_number_
     /\ ~parser.ignore_underfull_data_ /\ Len(Available) < last.n)
    => /\ last.thrown = "none"
       /\ fields = Transformed(Available, parser.field_parsers_)

\* C5 (amended): with enforce_field_number_ and ignore_underfull_data_ both
\* false, a call that reads fewer fields than requested, all of them
\* non-empty, succeeds and overwrites the vector with the short list of
\* fields read, in order.
C5_UnderfullStored ==
  (CalledParseFields /\ ~parser.enforce_field_number_
     /\ ~parser.ignore_underfull_data_
     /\ Len(Available) < last.n /\ AllNonEmpty(Available))
    => /\ last.thrown = "none"
       /\ fields = Transformed(Available, parser.field_parsers_)

C5_Witness ==
  /\ CalledParseFields /\ ~parser.enforce_field_number_
  /\ ~parser.ignore_underfull_data_
  /\ Len(Available) < last.n /\ AllNonEmpty(Available)
  /\ last.pre_out # <<>> /\ Len(fields) = 1 /\ fields # last.pre_out

\* C6: parse_fields called with a requested number <= 0 fails with
\* InvalidArgument, extracts no character and leaves the vector as it was.
C6_NonPositiveRequestRejected ==
  (last.op = "parse_fields" /\ last.n <= 0)
    => /\ last.thrown = "InvalidArgument"
       /\ is = last.pre_is
       /\ fields = last.pre_out

C6_Witness ==
  /\ last.op = "parse_fields" /\ last.n = 0
  /\ last.thrown = "InvalidArgument"
  /\ is.good /\ is.unread # <<>> /\ fields # <<>>

\* C7: masked characters appear in no field parse_fields stores, end no field
\* (the call stores at most one field more than it read delimiters) and stop
\* no scan (a call that leaves the stream good stopped at a character that is
\* not masked).
C7_MaskedCharactersSkipped ==
  /\ (CalledParseFields /\ last.thrown = "none" /\ fields # last.pre_out)
       => /\ \A i \in DOMAIN fields : \A j \in DOMAIN fields[i] :
               fields[i][j] \notin parser.masked_
          /\ Len(fields) <= Cardinality(DelimitersIn(Consumed)) + 1
  /\ (CalledParseFields /\ is.good)
       => /\ Consumed # <<>>
          /\ Consumed[Len(Consumed)] \notin parser.masked_

C7_Witness ==
  /\ CalledParseFields /\ last.thrown = "none" /\ fields # last.pre_out
  /\ parser.masked_ # {}
  /\ Len(Consumed) = 3 /\ Consumed[2] \in parser.masked_ /\ is.good

\* C8: when the delimiter that completes the requested quota is read,
\* parse_fields stops: it never extracts a character past that delimiter, and
\* when the fields before it are non-empty the call returns them and the
\* stream continues with the character right after that delimiter.
C8_StopsAtQuotaDelimiter ==
  (CalledParseFields /\ Cardinality(DelimitersIn(Segment)) >= last.n)
    => LET k == KthDelimiter(Segment, last.n)
       IN  /\ Len(Consumed) <= k
           /\ AllNonEmpty(FirstN(Available, last.n))
                => /\ last.thrown = "none"
                   /\ is.good
                   /\ is.unread = SubSeq(Offered, k + 1, Len(Offered))
                   /\ fields = Transformed(FirstN(Available, last.n),
                                           parser.field_parsers_)

C8_Witness ==
  /\ CalledParseFields /\ last.n = 1
  /\ Cardinality(DelimitersIn(Segment)) >= 1
  /\ last.thrown = "none"
  /\ is.unread # <<>> /\ is.unread[1] \notin parser.terminators_
  /\ Len(fields) = 1

\* a field that went through the caller's suffix-appending field parser
Marked(f) == f # <<>> /\ f[Len(f)] = "_"

\* C9: the number used to look up a field parser is the field's 1-based
\* position within the current call and restarts at 1 on every call: in what
\* any parse_fields or parse_row call of a sequence stores, exactly the
\* fields whose position has a registered parser went through it.
C9_FieldNumberRestartsPerCall ==
  /\ (last.op = "parse_fields" /\ last.thrown = "none"
        /\ parser.enforce_field_number_)
       => (Len(fields) = last.n
           /\ \A i \in DOMAIN fields :
                Marked(fields[i]) <=> i \in DOMAIN parser.field_parsers_)
  /\ (last.op = "parse_row" /\ last.thrown = "none")
       => \A i \in DOMAIN row :
            Marked(row[i]) <=> i \in DOMAIN rparser.field_parsers_

C9_Witness ==
  /\ last.op = "parse_fields" /\ last.thrown = "none"
  /\ last.pre_out # <<>> /\ Consumed # <<>>
  /\ DOMAIN parser.field_parsers_ = {1}
  /\ Len(fields) = 1 /\ Marked(fields[1])
  /\ Marked(last.pre_out[1])

\* parse_row: the text of the row the stream offers and the fields in it
RowText == Before(Offered, {"\n"})
RowFields == Split(RowText, {rparser.delimiter_})
\* what is left of the stream after the row and its terminator
AfterRow == SubSeq(Offered, Len(RowText) + 2, Len(Offered))

OverfullTruncating ==
  /\ last.op = "parse_row"
  /\ rparser.max_fields_ > 0
  /\ ~rparser.enforce_max_fields_ /\ ~rparser.ignore_overfull_row_
  /\ Len(RowFields) > rparser.max_fields_

TruncatedRowStored ==
  /\ last.thrown = "none"
  /\ row = FirstN(RowFields, rparser.max_fields_)
  /\ is.unread = AfterRow

\* C10 as stated: with max_fields_ = m > 0, enforce_max_fields_ false and
\* ignore_overfull_row_ false, a row with more than m fields succeeds, stores
\* exactly its first m fields in order, and the whole row up to and including
\* its terminator is consumed.
C10_AsStated == OverfullTruncating => TruncatedRowStored

\* C10 (amended): the same, provided the row is not rejected or ignored as
\* underfull: it has at least min_fields_ fields, or enforce_min_fields_ and
\* ignore_underfull_row_ are both false.
C10_OverfullRowTruncated ==
  (OverfullTruncating
     /\ (Len(RowFields) >= rparser.min_fields_
         \/ (~rparser.enforce_min_fields_ /\ ~rparser.ignore_underfull_row_)))
    => TruncatedRowStored

C10_Witness ==
  /\ OverfullTruncating /\ rparser.max_fields_ = 2
  /\ last.thrown = "none" /\ Len(row) = 2 /\ row[1] # row[2]
  /\ row # last.pre_out

\* parse_row: how the row the stream offers compares with the bounds
CalledParseRow == last.op = "parse_row"
Underfull == Len(RowFields) < rparser.min_fields_
Overfull == rparser.max_fields_ > 0 /\ Len(RowFields) > rparser.max_fields_
\* the numbers the MissingFields message of parse_row prints
MissingFieldsReport == <<last.field_count, rparser.min_fields_>>

UnderfullRejected ==
  /\ last.thrown = "MissingFields"
  /\ MissingFieldsReport = <<Len(RowFields), rparser.min_fields_>>
  /\ row = last.pre_out

\* C11 as stated: a row with N < min_fields_ fields, enforce_min_fields_
\* true: parse_row fails with MissingFields reporting N and min_fields_, and
\* the row vector is left as it was.
C11_AsStated ==
  (CalledParseRow /\ Underfull /\ rparser.enforce_min_fields_)
    => UnderfullRejected

\* C11 (amended): the same, unless the row also has more than max_fields_ > 0
\* fields with enforce_max_fields_ true: then the call fails with
\* UnexpectedFields while reading, before the minimum is tested. The row
\* vector is left as it was in both cases.
C11_UnderfullRowRejected ==
  (CalledParseRow /\ Underfull /\ rparser.enforce_min_fields_)
    => IF Overfull /\ rparser.enforce_max_fields_
       THEN last.thrown = "UnexpectedFields" /\ row = last.pre_out
       ELSE UnderfullRejected

C11_Witness ==
  /\ CalledParseRow /\ Underfull /\ rparser.enforce_min_fields_
  /\ Len(RowFields) = 2 /\ rparser.min_fields_ = 3
  /\ last.thrown = "MissingFields"
  /\ last.pre_out # <<>> /\ row = last.pre_out

\* C12: with max_fields_ > 0 and enforce_max_fields_ true, a row with more
\* than max_fields_ fields makes parse_row fail with UnexpectedFields and
\* leave the row vector as it was; a row with at most max_fields_ fields
\* never raises UnexpectedFields.
C12_OverfullRowRejected ==
  /\ (CalledParseRow /\ Overfull /\ rparser.enforce_max_fields_)
       => (last.thrown = "UnexpectedFields" /\ row = last.pre_out)
  /\ (CalledParseRow /\ rparser.max_fields_ > 0
        /\ Len(RowFields) <= rparser.max_fields_)
       => last.thrown # "UnexpectedFields"

C12_Witness ==
  /\ CalledParseRow /\ Overfull /\ rparser.enforce_max_fields_
  /\ rparser.max_fields_ = 2 /\ Len(RowFields) = 3
  /\ last.thrown = "UnexpectedFields"
  /\ last.pre_out # <<>> /\ row = last.pre_out

\* the fields a parse_row call puts in the vector when it stores the row
StoredRowFields ==
  IF Overfull THEN FirstN(RowFields, rparser.max_fields_) ELSE RowFields
IgnoredRow ==
  \/ (Underfull /\ rparser.ignore_underfull_row_)
  \/ (Overfull /\ rparser.ignore_overfull_row_)

\* C13: when parse_row raises no error, the row vector is left as it was if
\* the row was underfull with ignore_underfull_row_ true or overfull with
\* ignore_overfull_row_ true, and is overwritten with the row's fields in
\* every other case.
C13_RowKeptIffIgnored ==
  (CalledParseRow /\ last.thrown = "none")
    => IF IgnoredRow THEN row = last.pre_out ELSE row = StoredRowFields

C13_Witness ==
  /\ CalledParseRow /\ last.thrown = "none"
  /\ Overfull /\ rparser.ignore_overfull_row_ /\ ~Underfull
  /\ last.pre_out # <<>> /\ row = last.pre_out
  /\ row # StoredRowFields

\* C14 as stated: with enforce_min_fields_ and ignore_underfull_row_ both
\* false, a row with fewer than min_fields_ fields succeeds and the row
\* vector is overwritten with all the fields the row has.
C14_AsStated ==
  (CalledParseRow /\ Underfull
     /\ ~rparser.enforce_min_fields_ /\ ~rparser.ignore_underfull_row_)
    => (last.thrown = "none" /\ row = RowFields)

\* C14 (amended): the same for a row that does not also have more than
\* max_fields_ > 0 fields.
C14_UnderfullRowStored ==
  (CalledParseRow /\ Underfull /\ ~Overfull
     /\ ~rparser.enforce_min_fields_ /\ ~rparser.ignore_underfull_row_)
    => (last.thrown = "none" /\ row = RowFields)

C14_Witness ==
  /\ CalledParseRow /\ Underfull /\ ~Overfull
  /\ ~rparser.enforce_min_fields_ /\ ~rparser.ignore_underfull_row_
  /\ rparser.min_fields_ = 3 /\ Len(RowFields) = 2
  /\ last.thrown = "none" /\ row = RowFields /\ row # last.pre_out

\* C15: with the default settings (min_fields_ 0, max_fields_ 0, no field
\* parsers), whatever the delimiter, parse_row raises neither MissingFields
\* nor UnexpectedFields on any input; and with any max_fields_ <= 0 no
\* maximum is enforced: UnexpectedFields is never raised and no row is
\* ignored as overfull or truncated.
C15_DefaultsNeverReject ==
  /\ (CalledParseRow
        /\ rparser = [DelimitedRowParserDefault
                        EXCEPT !.delimiter_ = rparser.delimiter_])
       => (last.thrown = "none" /\ row = RowFields)
  /\ (CalledParseRow /\ rparser.max_fields_ <= 0)
       => /\ last.thrown # "UnexpectedFields"
          /\ (last.thrown = "none" /\ ~Underfull) => row = RowFields

C15_Witness ==
  /\ CalledParseRow
  /\ rparser = [DelimitedRowParserDefault EXCEPT !.delimiter_ = ","]
  /\ last.thrown = "none" /\ Len(row) = 3 /\ last.pre_out # <<>>

\* C16: parse_row rejects no empty field: with max_fields_ unbounded and the
\* minimum satisfied, the stored row is exactly the split of the row text on
\* the delimiter, empty strings included, so a row with k delimiters yields
\* k + 1 fields.
C16_EmptyFieldsAreKept ==
  (CalledParseRow /\ rparser.max_fields_ <= 0 /\ ~Underfull)
    => /\ last.thrown = "none"
       /\ row = RowFields
       /\ Len(row) = Cardinality({i \in DOMAIN RowText :
                                    RowText[i] = rparser.delimiter_}) + 1

C16_Witness ==
  /\ CalledParseRow /\ rparser.max_fields_ <= 0 /\ ~Underfull
  /\ rparser.min_fields_ = 3
  /\ RowText = <<rparser.delimiter_, rparser.delimiter_>>
  /\ row = <<<<>>, <<>>, <<>>>>

\* the field parser registered for column k in m, if any
Lookup(m, k) ==
  IF k \in DOMAIN m THEN <<"none", m[k]>> ELSE <<"out_of_range", "none">>

\* C19: set_parser(i, f) makes f the field parser of column i and changes no
\* other column; field_parsers(m) replaces the whole registry, so columns
\* absent from m have no field parser afterwards; get_parser(k) changes
\* nothing and returns the field parser registered for k, or fails with
\* out_of_range when there is none. Hence get_parser(k) returns the one most
\* recently registered for k.
C19_RegistryLookup ==
  [][/\ last'.op = "set_parser"
         => /\ Lookup(rparser'.field_parsers_, last'.n) = <<"none", last'.got>>
            /\ \A k \in 0..MaxColumn :
                 k # last'.n => Lookup(rparser'.field_parsers_, k)
                                  = Lookup(rparser.field_parsers_, k)
     /\ last'.op = "field_parsers"
         => \A k \in 0..MaxColumn :
              Lookup(rparser'.field_parsers_, k) = Lookup(last'.reg, k)
     /\ last'.op = "get_parser"
         => /\ rparser' = rparser
            /\ <<last'.thrown, last'.got>>
                 = Lookup(rparser.field_parsers_, last'.n)]_vars

C19_Witness ==
  /\ last.op = "get_parser" /\ last.n = 1
  /\ last.thrown = "none" /\ last.got = "clear"
  /\ DOMAIN rparser.field_parsers_ = {1, 2}
  /\ rparser.field_parsers_[2] = "append"
  /\ row # <<>>

\* parse_fields: the fields a returning call puts in the vector
Leading(fs, k) == IF Len(fs) <= k THEN fs ELSE FirstN(fs, k)
StoredFields == Transformed(Leading(Available, last.n), parser.field_parsers_)
IgnoredFields == Len(Available) < last.n /\ parser.ignore_underfull_data_

\* C17: over any sequence of parse_fields and parse_row calls handed the
\* same vector again and again, a call that stores its result replaces the
\* vector's contents: afterwards the vector holds exactly the fields of that
\* call, whatever it held before.
C17_VectorReplacedWholesale ==
  /\ (CalledParseFields /\ last.thrown = "none" /\ ~IgnoredFields)
       => fields = StoredFields
  /\ (CalledParseRow /\ last.thrown = "none" /\ ~IgnoredRow)
       => row = Transformed(StoredRowFields, rparser.field_parsers_)

C17_Witness ==
  /\ CalledParseRow /\ last.thrown = "none" /\ ~IgnoredRow
  /\ Len(last.pre_out) = 1 /\ Len(row) = 2
  /\ row[1] # last.pre_out[1] /\ row[2] # last.pre_out[1]

\* C18: a parse_fields or parse_row call that ends in an exception
\* (InvalidArgument, EmptyField, MissingFields, UnexpectedFields, or one
\* thrown by a field parser) leaves the vector exactly as it was before the
\* call, also when earlier fields of the call had been completed and had
\* gone through their field parser.
C18_NoPartialWrites ==
  /\ (last.op = "parse_fields" /\ last.thrown # "none") => fields = last.pre_out
  /\ (last.op = "parse_row" /\ last.thrown # "none") => row = last.pre_out

C18_Witness ==
  /\ CalledParseRow /\ last.thrown = "ParserException"
  /\ rparser.field_parsers_ = <<"append", "throw">>
  /\ Len(Consumed) = 2 /\ Consumed[1] = "a"
  /\ last.pre_out # <<>> /\ row = last.pre_out

\* the read loop of the last call found the stream at its end: nothing in
\* what the stream offered stopped it before
FieldsLoopMetEnd ==
  /\ Segment = Offered
  /\ Cardinality(DelimitersIn(Offered)) < last.n
RowLoopMetEnd == RowText = Offered

\* C20: the stream a parse_fields or parse_row call returns evaluates to
\* false exactly when the call's read loop ended because the stream had no
\* more characters, not when it stopped at a terminator or at the quota; the
\* fields read by such a call are stored as the flags say, so the last field
\* or row of an input without a trailing terminator is in the vector after
\* the call that returns false.
C20_FalseExactlyAtEnd ==
  /\ (CalledParseFields /\ last.thrown = "none")
       => /\ ~is.good <=> FieldsLoopMetEnd
          /\ ~is.good
               => fields = IF IgnoredFields THEN last.pre_out ELSE Available
  /\ (CalledParseRow /\ last.thrown = "none")
       => /\ ~is.good <=> RowLoopMetEnd
          /\ ~is.good
               => row = IF IgnoredRow THEN last.pre_out ELSE StoredRowFields

C20_Witness ==
  /\ CalledParseFields /\ last.thrown = "none"
  /\ last.pre_is.good /\ ~is.good
  /\ last.n = 2 /\ Len(Consumed) = 3
  /\ Len(fields) = 2 /\ fields # last.pre_out

\* C21: every parse_fields or parse_row call made while the stream has
\* characters left, other than one rejected with InvalidArgument, extracts at
\* least one character; hence a caller that keeps scanning reaches the point
\* where the stream is false, and then the whole input has been consumed.
C21_EveryCallAdvances ==
  /\ [](((CalledParseFields \/ CalledParseRow)
          /\ last.pre_is.good /\ last.pre_is.unread # <<>>)
         => Len(is.unread) < Len(last.pre_is.unread))
  /\ [](~is.good => is.unread = <<>>)
  /\ <>[](~is.good)

C21_Witness ==
  /\ CalledParseRow /\ last.thrown = "UnexpectedFields"
  /\ Len(last.pre_is.unread) = 2 /\ Len(is.unread) = 1
  /\ is.good

\* parse_fields: the number of delimiters before the next terminator or the
\* end of the stream, and whether a field parser of fields 1..k throws
DelimiterCount == Cardinality(DelimitersIn(Segment))
ParserThrowsUpTo(k) ==
  \E i \in 1..k : i \in DOMAIN parser.field_parsers_
                    /\ parser.field_parsers_[i] = "throw"

\* C22: when the read loop of parse_fields stops at a terminator or at the
\* end of the stream with d < q fields completed by delimiters, the trailing
\* text is made field d + 1, goes through the field parser registered for
\* d + 1 and counts toward the quota: with d = q - 1 and no empty field the
\* call returns and stores the q fields.
C22_TrailingFieldCounts ==
  (CalledParseFields /\ DelimiterCount < last.n
     /\ AllNonEmpty(Available) /\ ~ParserThrowsUpTo(DelimiterCount + 1))
    => /\ last.field_count = DelimiterCount + 1
       /\ DelimiterCount = last.n - 1
            => /\ last.thrown = "none"
               /\ Len(fields) = last.n
               /\ fields = Transformed(Available, parser.field_parsers_)

C22_Witness ==
  /\ CalledParseFields /\ last.n = 2 /\ DelimiterCount = 1
  /\ Segment # Offered
  /\ parser.field_parsers_ = <<"clear", "append">>
  /\ last.thrown = "none" /\ Len(fields) = 2 /\ Marked(fields[2])

\* parse_row: whether a field parser of columns 1..k throws
RowParserThrowsUpTo(k) ==
  \E i \in 1..k : i \in DOMAIN rparser.field_parsers_
                    /\ rparser.field_parsers_[i] = "throw"

\* C23: with max_fields_ > 0, the fields of a row beyond max_fields_ are
\* neither kept nor stored and their field parsers are not called: what the
\* call does is decided by the first max_fields_ fields and their field
\* parsers alone. With no maximum, or a row within it, every field goes
\* through its field parser and is stored.
C23_FieldsBeyondMaxUntouched ==
  CalledParseRow /\ ~Underfull =>
    IF Overfull
    THEN IF RowParserThrowsUpTo(rparser.max_fields_)
         THEN last.thrown = "ParserException"
         ELSE IF rparser.enforce_max_fields_
         THEN last.thrown = "UnexpectedFields"
         ELSE /\ last.thrown = "none"
              /\ row = IF rparser.ignore_overfull_row_ THEN last.pre_out
                        ELSE Transformed(FirstN(RowFields, rparser.max_fields_),
                                         rparser.field_parsers_)
    ELSE IF RowParserThrowsUpTo(Len(RowFields))
         THEN last.thrown = "ParserException"
         ELSE /\ last.thrown = "none"
              /\ row = Transformed(RowFields, rparser.field_parsers_)

C23_Witness ==
  /\ CalledParseRow /\ Overfull /\ rparser.max_fields_ = 1
  /\ ~rparser.enforce_max_fields_ /\ ~rparser.ignore_overfull_row_
  /\ rparser.field_parsers_ = <<"append", "throw">>
  /\ RowFields[2] # <<>>
  /\ last.thrown = "none" /\ row = <<<<"a", "_">>>>

\* parse_row: the position in what the stream offered of the delimiter that
\* opens field max_fields_ + 1
RowDelimiters == {i \in DOMAIN RowText : RowText[i] = rparser.delimiter_}
OverflowDelimiter ==
  CHOOSE i \in RowDelimiters :
    Cardinality({j \in RowDelimiters : j <= i}) = rparser.max_fields_

\* C24 as stated: the minimum is tested first, on the field count N of the
\* fully scanned row: whenever N < min_fields_ and enforce_min_fields_ is
\* true the call fails with MissingFields, and UnexpectedFields is raised
\* only otherwise, also when min_fields_ > max_fields_ and both are enforced.
C24_AsStated ==
  CalledParseRow =>
    /\ (Underfull /\ rparser.enforce_min_fields_)
         => last.thrown = "MissingFields"
    /\ last.thrown = "UnexpectedFields"
         => /\ ~(Underfull /\ rparser.enforce_min_fields_)
            /\ Overfull /\ rparser.enforce_max_fields_

\* C24 (amended): the maximum is tested first, while the row is being read:
\* whenever the row is overfull and enforce_max_fields_ is true the call
\* fails with UnexpectedFields at the delimiter that opens field
\* max_fields_ + 1, the rest of the row unread; MissingFields is raised only
\* otherwise, when N < min_fields_ and enforce_min_fields_ is true, N being
\* the field count of the fully scanned row. This includes
\* min_fields_ > max_fields_ with both enforced.
C24_MaximumTestedFirst ==
  CalledParseRow =>
    /\ last.thrown =
         IF Overfull /\ rparser.enforce_max_fields_ THEN "UnexpectedFields"
         ELSE IF Underfull /\ rparser.enforce_min_fields_ THEN "MissingFields"
         ELSE "none"
    /\ last.thrown = "UnexpectedFields" => Len(Consumed) = OverflowDelimiter
    /\ last.thrown = "MissingFields"
         => /\ last.field_count = Len(RowFields)
            /\ is.unread = AfterRow

C24_Witness ==
  /\ CalledParseRow /\ Underfull /\ Overfull
  /\ rparser.enforce_min_fields_ /\ rparser.enforce_max_fields_
  /\ rparser.min_fields_ > rparser.max_fields_
  /\ last.thrown = "UnexpectedFields"
  /\ Len(RowFields) = 2 /\ Len(Consumed) = 2 /\ is.unread # <<>>

\* parse_delimited_row: the DelimitedRowParser configured as the options are
\* (no maximum is max_fields -1 there and max_fields_ 0 here; the minimum is
\* enforced; additional fields are dropped or rejected)
Corresponding(options) ==
  [DelimitedRowParserDefault EXCEPT
     !.delimiter_ = options.delimiter,
     !.min_fields_ = options.min_fields,
     !.enforce_min_fields_ = TRUE,
     !.max_fields_ = IF options.max_fields = -1 THEN 0 ELSE options.max_fields,
     !.enforce_max_fields_ = ~options.ignore_additional_fields,
     !.ignore_overfull_row_ = FALSE,
     !.field_parsers_ = options.field_parsers]
CalledParseDelimitedRow == last.op = "parse_delimited_row"
HasCounterpart == CalledParseDelimitedRow /\ last.options.max_fields # 0
AsParseRow == parse_row(Corresponding(last.options), last.pre_is, last.pre_out)

\* C25: parse_delimited_row and DelimitedRowParser::parse_row, configured
\* alike, produce for every input row the same stored row or the same kind
\* of error.
C25_SameAsParseRow ==
  HasCounterpart => /\ last.thrown = AsParseRow.thrown
                    /\ row = AsParseRow.row

\* parse_fields: the read loop stops at a terminator or at the end of the
\* stream before the quota is met, and nothing is in the buffer then
StopsWithEmptyBuffer ==
  /\ CalledParseFields
  /\ DelimiterCount < last.n
  /\ Available[DelimiterCount + 1] = <<>>
ExhaustedStream == CalledParseFields /\ Offered = <<>>
BlankLine ==
  CalledParseFields /\ Offered # <<>> /\ Head(Offered) \in parser.terminators_

\* C26: when parse_fields stops at a terminator or at the end of the stream
\* with an empty buffer before the quota is met, it throws EmptyField under
\* every setting of enforce_field_number_ and ignore_underfull_data_ (never
\* MissingFields, never a return) and leaves the vector alone; so does a
\* call on an exhausted stream or on a line that starts with a terminator.
C26_EmptyTailRaisesEmptyField ==
  /\ StopsWithEmptyBuffer
       => last.thrown = "EmptyField" /\ fields = last.pre_out
  /\ (ExhaustedStream \/ BlankLine)
       => StopsWithEmptyBuffer /\ last.thrown = "EmptyField"

C26_Witness ==
  /\ BlankLine /\ StopsWithEmptyBuffer
  /\ ~parser.enforce_field_number_ /\ ~parser.ignore_underfull_data_
  /\ last.thrown = "EmptyField"
  /\ fields # <<>> /\ fields = last.pre_out

\* parse_row: what is left of the row after the delimiter that opens field
\* max_fields_ + 1, with the rows behind it
AfterOverflowDelimiter == SubSeq(Offered, OverflowDelimiter + 1, Len(Offered))
\* what the call left for the next one
LeftUnread ==
  IF last.thrown = "UnexpectedFields" THEN AfterOverflowDelimiter ELSE AfterRow

\* C27: where parse_row leaves the stream depends on how it ends. After
\* MissingFields, an ignored row or a truncated row (after every end but
\* UnexpectedFields) the row and its terminator are consumed and the next
\* call starts at the next row; after UnexpectedFields the stream is good and
\* stands right behind the delimiter that opens field max_fields_ + 1, and
\* the next parse_row call takes the unread tail of that row for a row.
C27_PositionAfterFailure ==
  /\ [](CalledParseRow
         => /\ is.unread = LeftUnread
            /\ last.thrown = "UnexpectedFields" => is.good)
  /\ [][(CalledParseRow /\ last'.op = "parse_row" /\ vars' # vars)
          => /\ Offered' = LeftUnread
             /\ RowText' = Before(LeftUnread, {"\n"})]_vars

C27_Witness ==
  /\ CalledParseRow /\ last.thrown = "UnexpectedFields"
  /\ rparser.max_fields_ = 1
  /\ Consumed = <<"a", rparser.delimiter_>>
  /\ is = [unread |-> <<"a">>, good |-> TRUE]

\* parse_fields: the raw fields the call gets to, and the empty ones of them
Wanted == Leading(Available, last.n)
EmptyRaw == {i \in DOMAIN Wanted : Wanted[i] = <<>>}
FirstEmptyRaw == CHOOSE i \in EmptyRaw : \A j \in EmptyRaw : i <= j
ClearedFields ==
  {i \in DOMAIN Wanted : i \in DOMAIN parser.field_parsers_
                           /\ parser.field_parsers_[i] = "clear"}

\* C28: parse_fields tests a field for emptiness on the raw text, before its
\* field parser runs. A field parser is never called on an empty field: the
\* call throws EmptyField whatever is registered for the field (a parser
\* that would fill it, or one that would throw). A field parser that
\* empties a non-empty field raises no EmptyField: the call goes on and the
\* empty text is what is stored for the field.
C28_EmptyCheckBeforeParser ==
  CalledParseFields =>
    /\ (EmptyRaw # {} /\ ~ParserThrowsUpTo(FirstEmptyRaw - 1))
         => last.thrown = "EmptyField" /\ fields = last.pre_out
    /\ (EmptyRaw = {} /\ ~ParserThrowsUpTo(Len(Wanted)))
         => /\ last.thrown \in {"none", "MissingFields"}
            /\ (last.thrown = "none" /\ ~IgnoredFields)
                 => /\ Len(fields) = Len(Wanted)
                    /\ \A i \in ClearedFields : fields[i] = <<>>

C28_Witness ==
  /\ CalledParseFields /\ last.thrown = "none" /\ ~IgnoredFields
  /\ EmptyRaw = {} /\ Len(Wanted) = 2
  /\ ClearedFields = {1}
  /\ fields = <<<<>>, <<"a", "_">>>>

\* the last call put its result in the vector
FieldsStored == CalledParseFields /\ last.thrown = "none" /\ ~IgnoredFields
RowStored == CalledParseRow /\ last.thrown = "none" /\ ~IgnoredRow

\* C29: the size of what is stored. A parse_fields call for q fields that
\* stores its result stores between 1 and q fields, and exactly q unless
\* enforce_field_number_ and ignore_underfull_data_ are both false. A
\* parse_row call that stores its result stores at least one field and, with
\* max_fields_ > 0, at most max_fields_; on an empty line or an exhausted
\* stream with min_fields_ <= 1 it stores one empty field, not an empty row.
C29_StoredSizes ==
  /\ FieldsStored
       => /\ Len(fields) \in 1..last.n
          /\ Len(fields) # last.n
               => ~parser.enforce_field_number_ /\ ~parser.ignore_underfull_data_
  /\ RowStored
       => /\ Len(row) >= 1
          /\ rparser.max_fields_ > 0 => Len(row) <= rparser.max_fields_
  /\ (CalledParseRow /\ RowText = <<>> /\ rparser.min_fields_ <= 1)
       => RowStored /\ row = <<<<>>>>

C29_Witness ==
  /\ RowStored /\ Overfull
  /\ rparser.max_fields_ = 2
  /\ Len(RowFields) = 3
  /\ Len(row) = 2

\* a row with enough fields for the minimum and too many for a smaller,
\* positive maximum that is not enforced and does not make the row ignored
EnoughButTruncated ==
  /\ CalledParseRow
  /\ rparser.min_fields_ > rparser.max_fields_ /\ rparser.max_fields_ > 0
  /\ ~rparser.enforce_max_fields_ /\ ~rparser.ignore_overfull_row_
  /\ Len(RowFields) >= rparser.min_fields_

\* C30: parse_row judges the minimum on the number of fields the input row
\* has (its delimiters + 1), not on the number it stores: MissingFields is
\* thrown only for a row with fewer than min_fields_ fields. Hence with
\* min_fields_ > max_fields_ > 0, enforce_max_fields_ false and
\* ignore_overfull_row_ false, a row with at least min_fields_ fields
\* returns and stores its first max_fields_ fields, fewer than min_fields_.
C30_MinimumJudgedOnInput ==
  /\ (CalledParseRow /\ last.thrown = "MissingFields")
       => Len(RowFields) < rparser.min_fields_
  /\ EnoughButTruncated
       => /\ last.thrown = "none"
          /\ last.field_count = Len(RowFields)
          /\ row = FirstN(RowFields, rparser.max_fields_)
          /\ Len(row) < rparser.min_fields_

C30_Witness ==
  /\ EnoughButTruncated /\ rparser.enforce_min_fields_
  /\ rparser.min_fields_ = 2 /\ rparser.max_fields_ = 1
  /\ Len(RowFields) = 2
  /\ last.thrown = "none"
  /\ row = <<<<"a">>>> /\ last.pre_out # row

====
